---------------------------- MODULE Spec2Model ----------------------------
(***************************************************************************)
(* The tool / operation engine of the drawing editor.                      *)
(*                                                                         *)
(* src/src/tools/abstract_tool.py holds the life cycle every tool shares   *)
(* (start_tool_operation, cancel_ongoing_operation, apply_operation,       *)
(* simple_apply_operation, restore_pixbuf, the _ongoing_operation flag).   *)
(* The image it acts on (the two pixel buffers, the history) and the       *)
(* concrete tools' drawing live in files that are not among the sources;   *)
(* they are modelled from spec.md sections 3 and 4 and are marked          *)
(* "spec" in the comments below.                                           *)
(*                                                                         *)
(* Beside the engine (Spec, SpecNoFailure) the module holds six smaller    *)
(* specifications over the same variables: SpecTabs (two images of one     *)
(* window sharing the window's tools), SpecDraw (the selection overlay of  *)
(* on_draw), from src/src/main.py SpecVersion (is_beta) and SpecCli        *)
(* (on_cli and the windows and tabs it opens), SpecBars (the adaptive      *)
(* options bar and header bar of src/src/optionsbars and                   *)
(* src/src/deco_manager.py) and SpecPrefs (the radio buttons of            *)
(* src/src/preferences.py).                                                *)
(***************************************************************************)
EXTENDS Integers, Sequences, FiniteSets, TLC

\* ------------------------------------------------------------------ bounds
\* The longest history a run builds.
MaxHist == 3
\* The longest history of an image, when the window holds two images.
MaxTabHist == 2
\* The largest major and minor numbers of a version of the application.
MaxMajor == 1
MaxMinor == 120
\* The most files a command line gives, and the most windows and images of
\* the active window there are when a command line arrives.
MaxFiles == 2
MaxWindows == 2
MaxTabs == 2
\* The largest sum of preferred widths init_adaptability measures, and the
\* largest small width a bar is allocated (beside the widths about the limits
\* the bars are built with).
MaxPreferred == 3
MaxWidth == 4

\* ---------------------------------------------------------------- the data
\* The tools of one window, by tool id (AbstractAbstractTool.id).
Tools == {"pencil", "eraser"}

\* A surface of one pixel, white or red.
Pixels == {1}
Colors == {"white", "red"}
Buffers == [Pixels -> Colors]

\* No exception in flight / no error text shown.
NoExc == "none"

\* spec 4.4: the colour a tool composites with (the pencil paints, the
\* eraser erases): the concrete tools' drawing, from the tool's id.
Ink(tool_id) == IF tool_id = "pencil" THEN "red" ELSE "white"

\* spec 4.4 finish: "the tool may elect to produce no Operation at all" for a
\* degenerate edit; spec 9: tool-optional but deterministic.  The pencil
\* elides a stroke without samples, the eraser does not.
ElidesDegenerate(tool_id) == tool_id = "pencil"

\* spec 4.1 composite(region, source): blends the source into a buffer at a
\* region (compositing mode "normal": the source replaces the pixels).
composite(buf, region, color) == [x \in Pixels |-> IF x \in region THEN color ELSE buf[x]]

\* spec 3 Operation: the tool's id and the payload (the pixels its samples
\* covered).
build_operation(tool_id, payload) == [tool_id |-> tool_id, payload |-> payload]

\* spec 3 Operation: deterministic replay of one Operation onto a buffer, by
\* the tool the operation is tagged with.
replay(buf, op) == composite(buf, op.payload, Ink(op.tool_id))

\* spec 4.3: replay of a sequence of Operations, in order.
RECURSIVE replay_all(_, _)
replay_all(buf, ops) ==
    IF ops = <<>> THEN buf
    ELSE replay(replay_all(buf, SubSeq(ops, 1, Len(ops) - 1)), ops[Len(ops)])

\* ---------------------------------------------------------------- the state
VARIABLES
    initial_pixbuf,     \* spec 4.3: the pristine base image (history index 0)
    stable,             \* spec 3: the stable buffer (the image's main_pixbuf)
    preview,            \* spec 3: the preview buffer (the image's surface)
    history,            \* spec 3 HistoryStack: the committed Operations
    cursor,             \* spec 3 HistoryStack: the cursor, 0 = pristine
    ongoing_operation,  \* tool id -> the tool's _ongoing_operation flag
    samples,            \* tool id -> the samples its operation accumulated
    active_tool,        \* spec 3 EditingSession: the currently active tool
    outcome,            \* what the last call reported to its caller
    shown,              \* the error text show_error showed during that call
    failed,             \* the history index whose replay raised in that call, or 0
    life,               \* observer: the start; sample*; cancel/finish in progress
    trip,               \* observer: the commit; undo; redo in progress
    images,             \* the images (tabs) of the window, when it holds two
    active_image,       \* the window's active image, an index of images
    accept_selection,   \* tool id -> the tool's accept_selection option
    selection,          \* spec 3 Selection: is_active, path, pixbuf, offset
    reads,              \* what the last on_draw read of the selection
    overlay,            \* what the last on_draw drew over the canvas
    numbers,            \* the numbers the version string was made from
    version,            \* Application._version, a string: its characters
    beta,               \* what is_beta returned ("True", "False"), or "unknown"
    program_path,       \* arguments[0] of every command line: the program's path
    windows,            \* the number of windows of the application
    active_tabs,        \* the number of images of the active window (0: no window)
    runs_in_sandbox,    \* Application.runs_in_sandbox
    cli,                \* the options and arguments of the last command line
    branch,             \* the branch of on_cli that handled it
    opened,             \* the contents of the windows it opened, in order
    tabbed,             \* the contents of the images it added to the active window
    printed,            \* the messages it printed
    optionsbar,         \* a bottom pane (OptionsBarScale): _limit_size, _is_narrow, ...
    headerbar,          \* the DrDecoManagerHeaderbar: _limit_size, _is_narrow, ...
    allocated_width,    \* the allocated width of the headerbar's widget
    adapted,            \* bar -> the last adaptability call on it
    ready,              \* the bars whose init_adaptability has run
    gsettings,          \* DrPrefsWindow._gsettings: key -> the string it holds
    _radio_are_active,  \* DrPrefsWindow._radio_are_active
    flowboxes,          \* key -> the radio buttons built for it, in order
    building,           \* where add_radio_flowbox is: the key and the next label
    written,            \* the (key, id) set_string was called with in the last step
    toggled             \* the ids on_radio_btn_changed was called with in that step

engine == <<initial_pixbuf, stable, preview, history, cursor,
            ongoing_operation, samples, active_tool>>
report == <<outcome, shown, failed>>
observers == <<life, trip>>
tabs == <<images, active_image>>
drawing == <<accept_selection, selection, reads, overlay>>
\* What the calls on the tools of one image leave alone.
release == <<numbers, version, beta>>
launch == <<program_path, windows, active_tabs, runs_in_sandbox, cli, branch,
            opened, tabbed, printed>>
chrome == <<optionsbar, headerbar, allocated_width, adapted, ready>>
prefs == <<gsettings, _radio_are_active, flowboxes, building, written, toggled>>
aside == <<drawing, release, launch, chrome, prefs>>
vars == <<engine, report, observers, tabs, aside>>

\* The session as the methods see it: the engine's state, the exception in
\* flight (exc), the text shown to the user, and whether the history stack is
\* replaying an operation it already holds.
Session ==
    [initial_pixbuf |-> initial_pixbuf, stable |-> stable, preview |-> preview,
     history |-> history, cursor |-> cursor,
     ongoing_operation |-> ongoing_operation, samples |-> samples,
     active_tool |-> active_tool,
     exc |-> NoExc, shown |-> NoExc, replaying |-> FALSE]

\* ------------------------------------------------------------- the image
\* spec 4.1 reset_preview(): copies stable into preview (image.use_stable_pixbuf).
use_stable_pixbuf(s) == [s EXCEPT !.preview = s.stable]

\* spec 4.1 commit_preview(): copies preview into stable.
commit_preview(s) == [s EXCEPT !.stable = s.preview]

\* Mutant: a commit that appends without truncating the stack to the cursor.
add_to_history_no_truncate(s, op) ==
    IF s.replaying THEN commit_preview(s)
    ELSE commit_preview([s EXCEPT !.history = Append(s.history, op),
                                  !.cursor = s.cursor + 1])

\* spec 4.5 commit(operation) / 4.3: a new Operation truncates the stack to the
\* cursor, is appended and advances the cursor, then the preview is promoted;
\* an Operation the stack replays (undo, redo) is already in it, and only the
\* preview is promoted.
add_to_history(s, op) ==
    IF s.replaying THEN commit_preview(s)
    ELSE commit_preview([s EXCEPT !.history = Append(SubSeq(s.history, 1, s.cursor), op),
                                  !.cursor = s.cursor + 1])

\* ------------------------------------------------------ AbstractAbstractTool
\* show_error: the text goes to the window's message prompt.
show_error(s, error_text) == [s EXCEPT !.shown = error_text]

\* Mutant: restore_pixbuf that leaves the surface as it is.
restore_pixbuf_noop(s) == s

\* restore_pixbuf: self.get_image().use_stable_pixbuf()
restore_pixbuf(s) == use_stable_pixbuf(s)

\* non_destructive_show_modif: self.get_image().update(), a repaint.
non_destructive_show_modif(s) == s

\* give_back_control
give_back_control(s) == non_destructive_show_modif(restore_pixbuf(s))

\* Mutant: the flag that is read is the active tool's, not the tool's own.
has_ongoing_operation_of_active(s, t) == s.ongoing_operation[s.active_tool]

\* has_ongoing_operation
has_ongoing_operation(s, t) == s.ongoing_operation[t]

\* Mutant: a cancel that restores the pixbuf and leaves the flag set.
cancel_ongoing_operation_keeps_flag(s, t) ==
    non_destructive_show_modif(restore_pixbuf(give_back_control(s)))

\* Mutant: a cancel that clears the flag and forgets to restore the pixbuf.
cancel_ongoing_operation_keeps_preview(s, t) == [s EXCEPT !.ongoing_operation[t] = FALSE]

\* cancel_ongoing_operation (on_tool_unselected and on_tool_selected are
\* empty in the abstract tool).
cancel_ongoing_operation(s, t) ==
    LET s1 == give_back_control(s)
        s2 == non_destructive_show_modif(restore_pixbuf(s1))
    IN [s2 EXCEPT !.ongoing_operation[t] = FALSE]

\* Mutant: a start that copies the surface into the main pixbuf instead of the
\* main pixbuf into the surface.
start_tool_operation_commits(s, t, operation) ==
    IF operation.tool_id # t
    THEN [s EXCEPT !.exc = "WrongToolIdException"]
    ELSE [commit_preview(s) EXCEPT !.ongoing_operation[t] = TRUE]

\* Mutant: a start that does not restore the pixbuf.
start_tool_operation_no_restore(s, t, operation) ==
    IF operation.tool_id # t
    THEN [s EXCEPT !.exc = "WrongToolIdException"]
    ELSE [s EXCEPT !.ongoing_operation[t] = TRUE]

\* Mutant: a start that does not check the operation's tool id.
start_tool_operation_unchecked(s, t, operation) ==
    [restore_pixbuf(s) EXCEPT !.ongoing_operation[t] = TRUE]

\* start_tool_operation
start_tool_operation(s, t, operation) ==
    IF operation.tool_id # t
    THEN [s EXCEPT !.exc = "WrongToolIdException"]
    ELSE [restore_pixbuf(s) EXCEPT !.ongoing_operation[t] = TRUE]

\* The replay does not raise.
NoFail == [raises |-> FALSE, drawn |-> {}]

\* The ways the replay of an operation can go: it works, or it raises after
\* drawing a part of the payload.
Fails(operation) ==
    {NoFail} \cup {[raises |-> TRUE, drawn |-> d] : d \in SUBSET operation.payload}

\* do_tool_operation of a concrete tool (spec 3 Operation, 4.3): starts the
\* operation, then draws it onto the preview; a replay that fails (spec 7
\* ReplayFailure) raises after drawing a part of the payload.
do_tool_operation(s, t, operation, fail) ==
    LET s1 == start_tool_operation(s, t, operation)
    IN IF s1.exc # NoExc THEN s1
       ELSE IF fail.raises
       THEN [s1 EXCEPT !.preview = composite(s1.preview, fail.drawn, Ink(t)),
                       !.exc = "ReplayFailure"]
       ELSE [s1 EXCEPT !.preview = replay(s1.preview, operation)]

\* Mutant: the operation is never added to the history.
simple_apply_operation_no_history(s, t, operation, fail) ==
    LET s1 == do_tool_operation(s, t, operation, fail)
        s2 == IF s1.exc = NoExc THEN s1
              ELSE show_error([s1 EXCEPT !.exc = NoExc], s1.exc)
    IN non_destructive_show_modif([s2 EXCEPT !.ongoing_operation[t] = FALSE])

\* Mutant: the operation is added to the history after the try block, also
\* when do_tool_operation raised.
simple_apply_operation_adds_on_error(s, t, operation, fail) ==
    LET s1 == do_tool_operation(s, t, operation, fail)
        s2 == IF s1.exc = NoExc THEN s1
              ELSE show_error([s1 EXCEPT !.exc = NoExc], s1.exc)
        s3 == add_to_history(s2, operation)
    IN non_destructive_show_modif([s3 EXCEPT !.ongoing_operation[t] = FALSE])

\* Mutant: the operation is added to the history before it is drawn.
simple_apply_operation_adds_first(s, t, operation, fail) ==
    LET s1 == do_tool_operation(add_to_history(s, operation), t, operation, fail)
        s2 == IF s1.exc = NoExc THEN s1
              ELSE show_error([s1 EXCEPT !.exc = NoExc], s1.exc)
    IN non_destructive_show_modif([s2 EXCEPT !.ongoing_operation[t] = FALSE])

\* Mutant: the ongoing-operation flag is not cleared.
simple_apply_operation_keeps_flag(s, t, operation, fail) ==
    LET s1 == do_tool_operation(s, t, operation, fail)
    IN IF s1.exc = NoExc
       THEN add_to_history(s1, operation)
       ELSE show_error([s1 EXCEPT !.exc = NoExc], s1.exc)

\* simple_apply_operation
simple_apply_operation(s, t, operation, fail) ==
    LET s1 == do_tool_operation(s, t, operation, fail)
        s2 == IF s1.exc = NoExc
              THEN add_to_history(s1, operation)
              ELSE show_error([s1 EXCEPT !.exc = NoExc], s1.exc)
    IN non_destructive_show_modif([s2 EXCEPT !.ongoing_operation[t] = FALSE])

\* apply_operation (update_actions_state and update_history_sensitivity only
\* enable or disable the window's actions).
apply_operation(s, t, operation, fail) == simple_apply_operation(s, t, operation, fail)


\* ------------------------------------------------------ the history stack
\* spec 4.3 undo: the rebuild replays the Operations with index <= n in order,
\* each by the tool it is tagged with (simple_apply_operation is the method
\* "for the 'rebuild from history' method"); the replay of the Operation of
\* index f, if any, goes as `fail` says.
RECURSIVE rebuild_from_history(_, _, _, _)
rebuild_from_history(s, n, f, fail) ==
    IF n = 0 THEN s
    ELSE LET op == s.history[n]
         IN simple_apply_operation(rebuild_from_history(s, n - 1, f, fail), op.tool_id, op,
                                   IF n = f THEN fail ELSE NoFail)

\* Mutant: an undo that resets the surfaces before it finds the boundary.
undo_resets_at_boundary(s, f, fail) ==
    LET s0 == use_stable_pixbuf([s EXCEPT !.stable = s.initial_pixbuf, !.replaying = TRUE])
    IN IF s.cursor = 0 THEN [s0 EXCEPT !.exc = "HistoryBoundary", !.replaying = FALSE]
       ELSE [rebuild_from_history([s0 EXCEPT !.cursor = s.cursor - 1], s.cursor - 1, f, fail)
                 EXCEPT !.replaying = FALSE]

\* spec 4.5 / 4.3 undo(): HistoryBoundary at the oldest state; else the cursor
\* is decremented and stable is rebuilt from the pristine base image.
undo(s, f, fail) ==
    IF s.cursor = 0 THEN [s EXCEPT !.exc = "HistoryBoundary"]
    ELSE LET s0 == use_stable_pixbuf([s EXCEPT !.cursor = s.cursor - 1,
                                               !.stable = s.initial_pixbuf,
                                               !.replaying = TRUE])
         IN [rebuild_from_history(s0, s0.cursor, f, fail) EXCEPT !.replaying = FALSE]

\* spec 4.5 / 4.3 redo(): HistoryBoundary at the newest state; else the cursor
\* is incremented and the one newly included Operation is replayed onto the
\* current stable.
redo(s, fail) ==
    IF s.cursor = Len(s.history) THEN [s EXCEPT !.exc = "HistoryBoundary"]
    ELSE LET op == s.history[s.cursor + 1]
             s0 == [s EXCEPT !.cursor = s.cursor + 1, !.replaying = TRUE]
         IN [apply_operation(s0, op.tool_id, op, fail) EXCEPT !.replaying = FALSE]

\* ------------------------------------------------------------ the session
\* spec 4.4 start: start_tool_operation, for an operation of tool `id`, with
\* no sample accumulated yet.
start(s, t, id) ==
    LET s1 == start_tool_operation(s, t, build_operation(id, {}))
    IN IF s1.exc # NoExc THEN s1 ELSE [s1 EXCEPT !.samples[t] = {}]

\* spec 4.4 sample(input): WrongToolContext before start; while operating it
\* accumulates the input and composites it onto the preview only.
sample(s, t, x) ==
    IF ~has_ongoing_operation(s, t) THEN [s EXCEPT !.exc = "WrongToolContext"]
    ELSE [s EXCEPT !.samples[t] = s.samples[t] \cup {x},
                   !.preview = composite(s.preview, {x}, Ink(t))]

\* spec 4.4 cancel(): cancel_ongoing_operation, and the samples are discarded.
cancel(s, t) == [cancel_ongoing_operation(s, t) EXCEPT !.samples[t] = {}]

\* spec 4.4 finish: the Operation built from the accumulated samples goes
\* through apply_operation; a degenerate edit of a tool that elides ends as a
\* cancel does.
elided(s, t) == ElidesDegenerate(t) /\ s.samples[t] = {}

finish(s, t, fail) ==
    IF elided(s, t) THEN cancel(s, t)
    ELSE [apply_operation(s, t, build_operation(t, s.samples[t]), fail)
              EXCEPT !.samples[t] = {}]

\* Mutant: a switch that cancels the ongoing operation by itself.
switch_active_tool_cancels(s, t) ==
    IF has_ongoing_operation(s, s.active_tool)
    THEN [cancel(s, s.active_tool) EXCEPT !.exc = "ToolBusy"]
    ELSE [s EXCEPT !.active_tool = t]

\* spec 4.5 switch_active_tool(tool): ToolBusy while the current tool has an
\* ongoing operation, and no implicit cancel.
switch_active_tool(s, t) ==
    IF has_ongoing_operation(s, s.active_tool) THEN [s EXCEPT !.exc = "ToolBusy"]
    ELSE [s EXCEPT !.active_tool = t]


\* ------------------------------------------------------------ the observers
\* They record what a claim about a sequence of calls compares with: the
\* state at start, the preview at finish, the state after a commit, the state
\* before a finish on a tool that was not started.  No operation reads them.
NoLife ==
    [phase |-> "none", tool |-> "none", stable0 |-> initial_pixbuf,
     history0 |-> <<>>, cursor0 |-> 0, sampled |-> {}, preview1 |-> initial_pixbuf]
NoTrip ==
    [phase |-> "none", before |-> initial_pixbuf, stable |-> initial_pixbuf,
     history |-> <<>>, cursor |-> 0]

\* The call ended without an exception and without an error shown.
Clean(s) == s.exc = NoExc /\ s.shown = NoExc

\* The call was a finish that committed an Operation.
Committed(s, call, t) == call = "finish" /\ Clean(s) /\ ~elided(Session, t)

NextLife(s, call, t) ==
    LET mine == life.phase = "started" /\ life.tool = t
    IN CASE call = "start" /\ s.exc = NoExc ->
              [phase |-> "started", tool |-> t, stable0 |-> stable,
               history0 |-> history, cursor0 |-> cursor, sampled |-> {},
               preview1 |-> initial_pixbuf]
         [] call = "sample" /\ s.exc = NoExc /\ mine -> [life EXCEPT !.sampled = s.samples[t]]
         [] call = "cancel" /\ mine -> [life EXCEPT !.phase = "cancelled", !.preview1 = preview]
         [] call = "finish" /\ mine ->
              [life EXCEPT !.preview1 = preview,
                           !.phase = IF elided(Session, t) THEN "elided"
                                     ELSE IF Clean(s) THEN "committed" ELSE "failed"]
         [] call = "finish" /\ ~mine /\ ~ongoing_operation[t] ->
              [phase |-> "unstarted", tool |-> t, stable0 |-> stable,
               history0 |-> history, cursor0 |-> cursor, sampled |-> samples[t],
               preview1 |-> preview]
         [] OTHER -> NoLife

NextTrip(s, call, t) ==
    CASE Committed(s, call, t) ->
             [phase |-> "commit", before |-> stable, stable |-> s.stable,
              history |-> s.history, cursor |-> s.cursor]
      [] call = "undo" /\ Clean(s) /\ trip.phase = "commit" -> [trip EXCEPT !.phase = "undo"]
      [] call = "redo" /\ Clean(s) /\ trip.phase = "undo" -> [trip EXCEPT !.phase = "redo"]
      [] OTHER -> NoTrip

\* The state after a call: what the call made of the session, what it
\* reported, and the observers.
Return(s, call, t, f) ==
    /\ initial_pixbuf' = s.initial_pixbuf
    /\ stable' = s.stable
    /\ preview' = s.preview
    /\ history' = s.history
    /\ cursor' = s.cursor
    /\ ongoing_operation' = s.ongoing_operation
    /\ samples' = s.samples
    /\ active_tool' = s.active_tool
    /\ outcome' = IF s.exc = NoExc THEN "ok" ELSE s.exc
    /\ shown' = s.shown
    /\ failed' = f
    /\ life' = NextLife(s, call, t)
    /\ trip' = NextTrip(s, call, t)
    /\ UNCHANGED <<tabs, aside>>

\* ------------------------------------------------- the images of a window
\* A window holds several images (tabs); its tools are built once, for the
\* window (AbstractAbstractTool.__init__(..., window)), and reach the image
\* they act on through the window.
Images == {1, 2}

\* spec 6: a freshly opened image: history index 0, no Operations.
NewImage(pixbuf) ==
    [initial_pixbuf |-> pixbuf, stable |-> pixbuf, preview |-> pixbuf,
     history |-> <<>>, cursor |-> 0]

\* The window as the tools see it.
Window == [active_image |-> active_image]

\* Mutant: the tools keep the image that was active when they were built.
get_image_first(window) == 1

\* get_image: self.window.get_active_image()
get_image(window) == window.active_image

\* The session of an image: the image and the window's tools.
SessionOf(i) ==
    LET image == images[i]
    IN [initial_pixbuf |-> image.initial_pixbuf, stable |-> image.stable,
        preview |-> image.preview, history |-> image.history,
        cursor |-> image.cursor,
        ongoing_operation |-> ongoing_operation, samples |-> samples,
        active_tool |-> active_tool,
        exc |-> NoExc, shown |-> NoExc, replaying |-> FALSE]

\* The session a call acts on: the one of the image get_image returns.
TabSession == SessionOf(get_image(Window))

\* The tools that have an ongoing operation, as the session of image i sees
\* them.
OperatingIn(i) == {t \in Tools : has_ongoing_operation(SessionOf(i), t)}

\* The state after a call on a window of two images: the image the call
\* reached through get_image holds what the call made of it, the tools what
\* the call made of them.
TabReturn(s) ==
    /\ images' = [images EXCEPT ![get_image(Window)] =
                      [initial_pixbuf |-> s.initial_pixbuf, stable |-> s.stable,
                       preview |-> s.preview, history |-> s.history,
                       cursor |-> s.cursor]]
    /\ ongoing_operation' = s.ongoing_operation
    /\ samples' = s.samples
    /\ outcome' = IF s.exc = NoExc THEN "ok" ELSE s.exc
    /\ UNCHANGED <<initial_pixbuf, stable, preview, history, cursor, active_tool,
                   shown, failed, observers, active_image, aside>>

\* ---------------------------------------------------------- the selection
\* spec 3 Selection: the bounding paths and the offsets of a drag.
Paths == {"rectangle", "polygon"}
Offsets == {0, 1}
NoPath == "none"

\* spec 3 Selection: created empty per session.
EmptySelection ==
    [is_active |-> FALSE, path |-> NoPath, pixbuf |-> NoPath, offset |-> 0]

\* A window whose tools never drew the selection.
NoDrawing ==
    /\ accept_selection = [t \in Tools |-> FALSE]
    /\ selection = EmptySelection
    /\ reads = {}
    /\ overlay = NoPath

\* What on_draw works with: the tools' accept_selection, the selection of the
\* image, what was read of it, the overlay drawn.
Canvas ==
    [accept_selection |-> accept_selection, selection |-> selection,
     reads |-> {}, overlay |-> NoPath]

\* spec 4.2 activate(path): marks the selection active, with a detached copy
\* of the pixels under the path.
activate(sel, path, color) ==
    [is_active |-> TRUE, path |-> path, pixbuf |-> color, offset |-> 0]

\* spec 4.2 deactivate(): marks inactive; the content is retained and stale.
deactivate(sel) == [sel EXCEPT !.is_active = FALSE]

\* spec 4.2 translate(dx, dy): updates the origin offset.
translate(sel, d) == [sel EXCEPT !.offset = d]

\* selection_is_active: self.get_selection().is_active
selection_is_active(c) == c.selection.is_active

\* Mutant: an on_draw that does not ask whether the selection is active.
on_draw_unchecked(c, t) ==
    IF ~c.accept_selection[t] THEN c
    ELSE [c EXCEPT !.reads = {"pixbuf", "path"},
                   !.overlay = <<c.selection.path, c.selection.offset>>]

\* on_draw: returns if the tool does not accept the selection, then if the
\* selection is not active; else show_selection_on_surface shows the
\* selection's pixbuf and get_path_with_scroll gives the path of the overlay.
on_draw(c, t) ==
    IF ~c.accept_selection[t] THEN c
    ELSE IF ~selection_is_active(c) THEN [c EXCEPT !.reads = {"is_active"}]
    ELSE [c EXCEPT !.reads = {"is_active", "pixbuf", "path"},
                   !.overlay = <<c.selection.path, c.selection.offset>>]

\* ------------------------------------------------------------ the version
\* The decimal digits, as characters; the digit of value d is Digits[d + 1].
Digits == <<"0", "1", "2", "3", "4", "5", "6", "7", "8", "9">>

\* str(n): the decimal writing of a natural number.
RECURSIVE str(_)
str(n) ==
    IF n < 10 THEN <<Digits[n + 1]>>
    ELSE str(n \div 10) \o <<Digits[(n % 10) + 1]>>

\* The version string the build gives to main(version): "major.minor.patch".
format_version(n) == str(n[1]) \o <<".">> \o str(n[2]) \o <<".">> \o str(n[3])

\* int(text): the number a string of decimal digits writes.
RECURSIVE int(_)
int(text) ==
    IF text = <<>> THEN 0
    ELSE LET d == CHOOSE k \in 0 .. 9 : Digits[k + 1] = text[Len(text)]
         IN int(SubSeq(text, 1, Len(text) - 1)) * 10 + d

\* text.split(sep): the pieces of the text between the separators.
RECURSIVE split(_, _)
split(text, sep) ==
    IF \A i \in 1 .. Len(text) : text[i] # sep THEN <<text>>
    ELSE LET i == CHOOSE k \in 1 .. Len(text) :
                      text[k] = sep /\ \A j \in 1 .. k - 1 : text[j] # sep
         IN <<SubSeq(text, 1, i - 1)>> \o split(SubSeq(text, i + 1, Len(text)), sep)

\* Mutant: the parity is taken of the first component of the version.
is_beta_of_major(v) == (int(split(v, ".")[1]) * 5) % 10 = 5

\* is_beta: (int(self._version.split('.')[1]) * 5) % 10 == 5; Python counts
\* the pieces from 0, its integers have no width.
is_beta(v) == (int(split(v, ".")[2]) * 5) % 10 = 5

\* A session in which is_beta was not asked.
NoRelease ==
    /\ numbers = <<0, 0, 0>>
    /\ version = format_version(numbers)
    /\ beta = "unknown"

\* ------------------------------------------------------- the command line
FLATPAK_BINARY_PATH == "/app/bin/drawing"

\* The options of the command line, in the order on_cli names them.
Options == <<"version", "edit-clipboard", "new-tab", "new-window">>

\* The paths a user gives: two images, a file that is not an image, and a
\* path create_file_for_arg raises for.
FilePaths == {"a.png", "b.png", "notes.txt", "unusable"}
is_creatable(path) == path # "unusable"
\* utilities_gfile_is_image: the program's own path is a file, not an image.
utilities_gfile_is_image(path) == path \in {"a.png", "b.png"}

\* Python's None, as open_window_with_content gets it for a blank image.
None == "None"

RECURSIVE SeqsOf(_, _)
SeqsOf(S, n) ==
    IF n = 0 THEN {<<>>}
    ELSE SeqsOf(S, n - 1) \cup {Append(q, x) : q \in SeqsOf(S, n - 1), x \in S}

\* The application as on_cli sees it, with nothing yet done for the command
\* line.
Application ==
    [windows |-> windows, active_tabs |-> active_tabs,
     runs_in_sandbox |-> runs_in_sandbox, version |-> version,
     branch |-> "none", opened |-> <<>>, tabbed |-> <<>>, printed |-> <<>>]

\* open_window_with_content: a new window, presented (it is the active one),
\* with the picture of the clipboard, of the file, or a blank one.
open_window_with_content(a, gfile, get_cb) ==
    [a EXCEPT !.windows = a.windows + 1,
              !.active_tabs = 1,
              !.opened = Append(a.opened, IF get_cb THEN "clipboard" ELSE gfile)]

\* on_new_window
on_new_window(a) == open_window_with_content(a, None, FALSE)

\* on_activate
on_activate(a) == IF a.windows = 0 THEN on_new_window(a) ELSE a

\* The window's build_image_from_clipboard, build_new_image and
\* build_new_tab: one more image in the active window.
build_new_tab(a, content) ==
    [a EXCEPT !.active_tabs = a.active_tabs + 1,
              !.tabbed = Append(a.tabbed, content)]

\* _get_valid_file: the file if the path is an image's, else "True" if a
\* window should be opened anyway, or "False".
_get_valid_file(a, path) ==
    IF path = FLATPAK_BINARY_PATH
    THEN [app |-> [a EXCEPT !.runs_in_sandbox = TRUE], f |-> "False"]
    ELSE IF ~is_creatable(path)
    THEN [app |-> [a EXCEPT !.printed =
                       Append(a.printed,
                              IF a.runs_in_sandbox
                              THEN "Error opening this file. Did you mean flatpak run ?"
                              ELSE "Error opening this file. excp.message")],
          f |-> "False"]
    ELSE IF utilities_gfile_is_image(path)
    THEN [app |-> a, f |-> path]
    ELSE [app |-> [a EXCEPT !.printed =
                       Append(a.printed, "Error opening this file. It isn't an image.")],
          f |-> "True"]

\* The loop of the 'new-window' branch: all the arguments, arguments[0]
\* included; one window per argument whose f is not False.
RECURSIVE open_windows(_, _)
open_windows(a, arguments) ==
    IF arguments = <<>> THEN [app |-> a, windows_counter |-> 0]
    ELSE LET r == _get_valid_file(a, Head(arguments))
             a1 == IF r.f # "False"
                   THEN open_window_with_content(r.app, IF r.f = "True" THEN None ELSE r.f,
                                                 FALSE)
                   ELSE r.app
             rest == open_windows(a1, Tail(arguments))
         IN [app |-> rest.app,
             windows_counter |-> rest.windows_counter + (IF r.f # "False" THEN 1 ELSE 0)]

\* The loop of the last branch: each valid enough argument is a new image
\* of the active window, or a new window if there is no window.
RECURSIVE open_tabs(_, _)
open_tabs(a, arguments) ==
    IF arguments = <<>> THEN a
    ELSE LET r == _get_valid_file(a, Head(arguments))
             f == IF r.f = "True" THEN None ELSE r.f
             a1 == IF r.f = "False" THEN r.app
                   ELSE IF r.app.windows = 0 THEN open_window_with_content(r.app, f, FALSE)
                   ELSE build_new_tab(r.app, f)
         IN open_tabs(a1, Tail(arguments))

\* on_cli
on_cli(app, options, arguments) ==
    LET a == IF arguments[1] = FLATPAK_BINARY_PATH
             THEN [app EXCEPT !.runs_in_sandbox = TRUE] ELSE app
    IN IF "version" \in options
       THEN [a EXCEPT !.branch = "version",
                      !.printed = <<"Drawing">> \o a.version
                                  \o (IF is_beta(a.version)
                                      THEN <<"This version isn't stable!">> ELSE <<>>)
                                  \o <<"Report bugs or ideas">>]
       ELSE IF "edit-clipboard" \in options
       THEN LET b == [a EXCEPT !.branch = "edit-clipboard"]
            IN IF b.windows = 0 THEN open_window_with_content(b, None, TRUE)
               ELSE build_new_tab(b, "clipboard")
       ELSE IF "new-tab" \in options /\ Len(arguments) = 1
       THEN LET b == [a EXCEPT !.branch = "new-tab"]
            IN IF b.windows = 0 THEN on_new_window(b) ELSE build_new_tab(b, None)
       ELSE IF "new-window" \in options
       THEN LET r == open_windows([a EXCEPT !.branch = "new-window"], arguments)
            IN IF r.windows_counter = 0 THEN on_new_window(r.app) ELSE r.app
       ELSE IF Len(arguments) = 1
       THEN on_activate([a EXCEPT !.branch = "activate"])
       ELSE open_tabs([a EXCEPT !.branch = "files"], arguments)

\* An application that got no command line yet.
NoCli == [options |-> {}, arguments |-> <<>>]

NoLaunch ==
    /\ program_path = FLATPAK_BINARY_PATH
    /\ windows = 0
    /\ active_tabs = 0
    /\ runs_in_sandbox = FALSE
    /\ cli = NoCli
    /\ branch = "none"
    /\ opened = <<>>
    /\ tabbed = <<>>
    /\ printed = <<>>

\* ------------------------------------------------------- the adaptive bars
\* The limits the bars are built with, in pixels ("quite high as a
\* precaution", "quite extreme as a precaution").
OptionsBarLimit == 700
HeaderbarLimit == 750

Bars == {"optionsbar", "headerbar"}

\* The widths a bar is allocated: small ones, and the ones about the limits
\* the bars are built with.
Widths ==
    (0 .. MaxWidth) \cup {OptionsBarLimit, OptionsBarLimit + 1,
                          HeaderbarLimit, HeaderbarLimit + 1}

\* A bar: _limit_size is kept in half pixels (the headerbar's is
\* widgets_width * 2.5, a float that need not be whole); wide tells whether
\* the widgets of the wide layout are visible; compacted lists the states
\* set_compact was called with during the last call on the bar.
NewBar(limit, narrow) ==
    [_limit_size |-> 2 * limit, _is_narrow |-> narrow, wide |-> TRUE,
     compacted |-> <<>>]

\* AbstractOptionsBar.set_compact, with OptionsBarScale's: the flag, then the
\* visibility of the help button, the labels and the separator.
set_compact(bar, state) ==
    [bar EXCEPT !._is_narrow = state, !.wide = ~state,
                !.compacted = Append(bar.compacted, state)]

\* Mutant: an adapt_to_window_size that calls set_compact whatever the flag.
adapt_to_window_size_always(bar, width) ==
    set_compact(bar, ~(2 * width > bar._limit_size))

\* AbstractOptionsBar.adapt_to_window_size
adapt_to_window_size(bar, width) ==
    LET can_expand == 2 * width > bar._limit_size
        incoherent == (can_expand = bar._is_narrow)
    IN IF incoherent THEN set_compact(bar, ~bar._is_narrow) ELSE bar

\* AbstractOptionsBar._set_limit_size: int(1.25 * temp_limit_size), which for
\* a width (never negative) is the quotient of 5 * temp_limit_size by 4.
_set_limit_size(bar, temp_limit_size) ==
    set_compact([bar EXCEPT !._limit_size = 2 * ((5 * temp_limit_size) \div 4)], TRUE)

\* OptionsBarScale.init_adaptability: the abstract bar's (set_compact(False),
\* show_all), then the sum of the preferred widths goes to _set_limit_size.
init_adaptability(bar, temp_limit_size) ==
    _set_limit_size(set_compact(bar, FALSE), temp_limit_size)

\* DrDecoManagerHeaderbar.set_compact: the menu and the visibility of the
\* widgets, then the flag.
headerbar_set_compact(bar, state) ==
    [bar EXCEPT !.wide = ~state, !._is_narrow = state,
                !.compacted = Append(bar.compacted, state)]

\* Mutant: a headerbar that compares the limit with the width the wrong way.
headerbar_adapt_to_window_size_inverted(bar, width) ==
    LET can_expand == 2 * width < bar._limit_size
        incoherent == (can_expand = bar._is_narrow)
    IN IF incoherent THEN headerbar_set_compact(bar, ~bar._is_narrow) ELSE bar

\* DrDecoManagerHeaderbar.adapt_to_window_size; width is what
\* self._widget.get_allocated_width() returns.
headerbar_adapt_to_window_size(bar, width) ==
    LET can_expand == 2 * width > bar._limit_size
        incoherent == (can_expand = bar._is_narrow)
    IN IF incoherent THEN headerbar_set_compact(bar, ~bar._is_narrow) ELSE bar

\* DrDecoManagerHeaderbar.init_adaptability: the limit is widgets_width * 2.5
\* (5 * widgets_width half pixels), then set_compact(True) and
\* adapt_to_window_size().
headerbar_init_adaptability(bar, widgets_width, width) ==
    headerbar_adapt_to_window_size(
        headerbar_set_compact([bar EXCEPT !._limit_size = 5 * widgets_width], TRUE),
        width)

\* No adaptability call was made on the bar yet.
NoCall == [call |-> "none", width |-> 0, times |-> 0]

\* A window whose bars were built and never allocated a size.
NoChrome ==
    /\ optionsbar = NewBar(OptionsBarLimit, FALSE)
    /\ headerbar = NewBar(HeaderbarLimit, TRUE)
    /\ allocated_width = 0
    /\ adapted = [b \in Bars |-> NoCall]
    /\ ready = {}

\* ------------------------------------------------------- the preferences
\* The keys add_radio_flowbox is called with, in the order __init__ builds the
\* pages (page_builder_images, then page_builder_advanced).
RadioKeys == <<"replace-alpha", "theme-variant", "deco-type">>

\* The ids of a key's labels_dict, in the order of the dict.
labels_dict(key) ==
    CASE key = "replace-alpha" ->
             <<"initial", "white", "black", "checkboard", "nothing", "ask">>
      [] key = "theme-variant" -> <<"default", "light", "dark">>
      [] key = "deco-type" -> <<"", "hg", "he", "mtc", "mts", "m", "tc", "ts">>

Keys == {RadioKeys[i] : i \in 1 .. Len(RadioKeys)}
Ids(key) == {labels_dict(key)[n] : n \in 1 .. Len(labels_dict(key))}

\* add_radio_flowbox is not running.
NotBuilding == [key |-> "none", n |-> 0]

\* The preferences window as its methods see it: the settings, the flag, the
\* radio buttons of the flowbox in hand (group), and what the callbacks did.
PrefsWindow(key) ==
    [gsettings |-> gsettings, _radio_are_active |-> _radio_are_active,
     group |-> flowboxes[key], written |-> <<>>, toggled |-> <<>>]

\* Mutant: a callback that does not read _radio_are_active.
on_radio_btn_changed_unguarded(w, key, btn_id) ==
    [w EXCEPT !.toggled = Append(w.toggled, btn_id),
              !.gsettings[key] = btn_id,
              !.written = Append(w.written, <<key, btn_id>>)]

\* on_radio_btn_changed
on_radio_btn_changed(w, key, btn_id) ==
    LET w1 == [w EXCEPT !.toggled = Append(w.toggled, btn_id)]
    IN IF w1._radio_are_active
       THEN [w1 EXCEPT !.gsettings[key] = btn_id,
                       !.written = Append(w1.written, <<key, btn_id>>)]
       ELSE w1

\* Gtk emits 'toggled' on button i: its handler runs if it is connected.
emit_toggled(w, key, i) ==
    IF w.group[i].connected THEN on_radio_btn_changed(w, key, w.group[i].id) ELSE w

\* Gtk.RadioButton.set_active: nothing if the button is in that state; a
\* button made active takes the place of the active one of its group, which
\* is toggled first; the only active button of a group cannot be made
\* inactive.
set_active(w, key, i, is_active) ==
    IF w.group[i].active = is_active THEN w
    ELSE IF ~is_active THEN w
    ELSE LET others == {j \in 1 .. Len(w.group) : j # i /\ w.group[j].active}
             w1 == [w EXCEPT !.group =
                        [j \in 1 .. Len(w.group) |->
                            [id |-> w.group[j].id, active |-> (j = i),
                             connected |-> w.group[j].connected]]]
             w2 == IF others = {} THEN w1
                   ELSE emit_toggled(w1, key, CHOOSE j \in others : TRUE)
         IN emit_toggled(w2, key, i)

\* Gtk.RadioButton(group=group): the first button of a group is active.
RadioButton(btn_id, group) ==
    [id |-> btn_id, active |-> group = <<>>, connected |-> FALSE]

\* build_radio_btn: the button, set_active, then connect; add_radio_flowbox
\* adds it to the flowbox.
build_radio_btn(w, btn_id, key) ==
    LET active_id == w.gsettings[key]
        i == Len(w.group) + 1
        w1 == [w EXCEPT !.group = Append(w.group, RadioButton(btn_id, w.group))]
        w2 == set_active(w1, key, i, btn_id = active_id)
    IN [w2 EXCEPT !.group =
            [j \in 1 .. Len(w2.group) |->
                [id |-> w2.group[j].id, active |-> w2.group[j].active,
                 connected |-> (j = i) \/ w2.group[j].connected]]]

\* A preferences window that was not built.
NoPrefs ==
    /\ gsettings = [k \in Keys |-> labels_dict(k)[1]]
    /\ _radio_are_active = FALSE
    /\ flowboxes = [k \in Keys |-> <<>>]
    /\ building = NotBuilding
    /\ written = <<>>
    /\ toggled = <<>>

\* ---------------------------------------------------------------- the calls
\* spec 6: the codec layer supplies the initial stable buffer: a blank (white)
\* image or a loaded one.
InitialImages == {[x \in Pixels |-> "white"], [x \in Pixels |-> "red"]}

Init ==
    /\ initial_pixbuf \in InitialImages
    /\ stable = initial_pixbuf
    /\ preview = initial_pixbuf
    /\ history = <<>>
    /\ cursor = 0
    /\ ongoing_operation = [t \in Tools |-> FALSE]
    /\ samples = [t \in Tools |-> {}]
    /\ active_tool = "pencil"
    /\ outcome = "ok"
    /\ shown = NoExc
    /\ failed = 0
    /\ life = NoLife
    /\ trip = NoTrip
    /\ images = [i \in Images |-> NewImage([x \in Pixels |-> "white"])]
    /\ active_image = 1
    /\ NoDrawing
    /\ NoRelease
    /\ NoLaunch
    /\ NoChrome
    /\ NoPrefs

Start(t, id) ==
    /\ id \in Tools
    /\ Return(start(Session, t, id), "start", t, 0)

Sample(t, x) ==
    /\ x \in Pixels
    /\ Return(sample(Session, t, x), "sample", t, 0)

Cancel(t) ==
    /\ t \in Tools
    /\ Return(cancel(Session, t), "cancel", t, 0)

Finish(t, fail) ==
    /\ cursor < MaxHist
    /\ fail \in (IF elided(Session, t) THEN {NoFail}
                 ELSE Fails(build_operation(t, samples[t])))
    /\ Return(finish(Session, t, fail), "finish", t, 0)

\* f = 0: no replay of the rebuild raises.
Undo(f, fail) ==
    /\ f = 0 \/ f < cursor
    /\ fail \in (IF f = 0 THEN {NoFail} ELSE Fails(history[f]) \ {NoFail})
    /\ Return(undo(Session, f, fail), "undo", "none", f)

Redo(fail) ==
    /\ fail \in (IF cursor = Len(history) THEN {NoFail} ELSE Fails(history[cursor + 1]))
    /\ Return(redo(Session, fail), "redo", "none", IF fail.raises THEN cursor + 1 ELSE 0)

SwitchActiveTool(t) ==
    /\ t \in Tools
    /\ Return(switch_active_tool(Session, t), "switch", t, 0)

\* The ways a replay can go, for any operation.
AllFails == {NoFail} \cup {[raises |-> TRUE, drawn |-> d] : d \in SUBSET Pixels}

Next ==
    \/ \E t \in Tools, id \in Tools : Start(t, id)
    \/ \E t \in Tools, x \in Pixels : Sample(t, x)
    \/ \E t \in Tools : Cancel(t)
    \/ \E t \in Tools, fail \in AllFails : Finish(t, fail)
    \/ \E f \in 0 .. MaxHist, fail \in AllFails : Undo(f, fail)
    \/ \E fail \in AllFails : Redo(fail)
    \/ \E t \in Tools : SwitchActiveTool(t)

Spec == Init /\ [][Next]_vars

\* The calls when no replay of the history raises (a finish still can).
NextNoFailure ==
    \/ \E t \in Tools, id \in Tools : Start(t, id)
    \/ \E t \in Tools, x \in Pixels : Sample(t, x)
    \/ \E t \in Tools : Cancel(t)
    \/ \E t \in Tools, fail \in AllFails : Finish(t, fail)
    \/ Undo(0, NoFail)
    \/ Redo(NoFail)
    \/ \E t \in Tools : SwitchActiveTool(t)

SpecNoFailure == Init /\ [][NextNoFailure]_vars

\* ------------------------------------- the calls on a window of two images
InitTabs ==
    /\ initial_pixbuf = [x \in Pixels |-> "white"]
    /\ stable = initial_pixbuf
    /\ preview = initial_pixbuf
    /\ history = <<>>
    /\ cursor = 0
    /\ ongoing_operation = [t \in Tools |-> FALSE]
    /\ samples = [t \in Tools |-> {}]
    /\ active_tool \in Tools
    /\ outcome = "ok"
    /\ shown = NoExc
    /\ failed = 0
    /\ life = NoLife
    /\ trip = NoTrip
    /\ images \in [Images -> {NewImage(p) : p \in InitialImages}]
    /\ active_image = 1
    /\ NoDrawing
    /\ NoRelease
    /\ NoLaunch
    /\ NoChrome
    /\ NoPrefs

\* spec 6: the window delivers the input events to its active tool, which
\* acts on the image get_image returns.
TabStart ==
    /\ active_tool \in Tools
    /\ TabReturn(start(TabSession, active_tool, active_tool))

TabSample(x) ==
    /\ x \in Pixels
    /\ TabReturn(sample(TabSession, active_tool, x))

TabCancel ==
    /\ active_tool \in Tools
    /\ TabReturn(cancel(TabSession, active_tool))

TabFinish ==
    /\ TabSession.cursor < MaxTabHist
    /\ TabReturn(finish(TabSession, active_tool, NoFail))

TabUndo ==
    /\ active_image \in Images
    /\ TabReturn(undo(TabSession, 0, NoFail))

TabRedo ==
    /\ active_image \in Images
    /\ TabReturn(redo(TabSession, NoFail))

\* The user selects another tab: the window's active image changes.
SwitchTab(i) ==
    /\ i # active_image
    /\ active_image' = i
    /\ UNCHANGED <<engine, report, observers, images, aside>>

TabCall ==
    \/ TabStart
    \/ \E x \in Pixels : TabSample(x)
    \/ TabCancel
    \/ TabFinish
    \/ TabUndo
    \/ TabRedo

NextTabs ==
    \/ TabStart
    \/ \E x \in Pixels : TabSample(x)
    \/ TabCancel
    \/ TabFinish
    \/ TabUndo
    \/ TabRedo
    \/ \E i \in Images : SwitchTab(i)

SpecTabs == InitTabs /\ [][NextTabs]_vars

\* ------------------------------------------------ the calls on the selection
\* The session whose tools are idle and whose image is blank.
IdleSession ==
    /\ initial_pixbuf = [x \in Pixels |-> "white"]
    /\ stable = initial_pixbuf
    /\ preview = initial_pixbuf
    /\ history = <<>>
    /\ cursor = 0
    /\ ongoing_operation = [t \in Tools |-> FALSE]
    /\ samples = [t \in Tools |-> {}]
    /\ active_tool = "pencil"
    /\ outcome = "ok"
    /\ shown = NoExc
    /\ failed = 0
    /\ life = NoLife
    /\ trip = NoTrip
    /\ images = [i \in Images |-> NewImage([x \in Pixels |-> "white"])]
    /\ active_image = 1

\* The tools of the window accept the selection or not (the option is set
\* when the tool is built), and the selection is created empty.
InitDraw ==
    /\ IdleSession
    /\ accept_selection \in [Tools -> BOOLEAN]
    /\ selection = EmptySelection
    /\ reads = {}
    /\ overlay = NoPath
    /\ NoRelease
    /\ NoLaunch
    /\ NoChrome
    /\ NoPrefs

Activate(path, color) ==
    /\ selection' = activate(selection, path, color)
    /\ UNCHANGED <<engine, report, observers, tabs, accept_selection, reads, overlay,
                   release, launch, chrome, prefs>>

Deactivate ==
    /\ selection' = deactivate(selection)
    /\ UNCHANGED <<engine, report, observers, tabs, accept_selection, reads, overlay,
                   release, launch, chrome, prefs>>

Translate(d) ==
    /\ selection.is_active
    /\ selection' = translate(selection, d)
    /\ UNCHANGED <<engine, report, observers, tabs, accept_selection, reads, overlay,
                   release, launch, chrome, prefs>>

\* The canvas is repainted: on_draw of tool t.
OnDraw(t) ==
    /\ reads' = on_draw(Canvas, t).reads
    /\ overlay' = on_draw(Canvas, t).overlay
    /\ UNCHANGED <<engine, report, observers, tabs, accept_selection, selection,
                   release, launch, chrome, prefs>>

NextDraw ==
    \/ \E path \in Paths, color \in Colors : Activate(path, color)
    \/ Deactivate
    \/ \E d \in Offsets : Translate(d)
    \/ \E t \in Tools : OnDraw(t)

SpecDraw == InitDraw /\ [][NextDraw]_vars

\* --------------------------------------------------- the calls of is_beta
\* The application is built with the version string of the release.
InitVersion ==
    /\ IdleSession
    /\ NoDrawing
    /\ numbers \in (0 .. MaxMajor) \X (0 .. MaxMinor) \X {0, 12}
    /\ version = format_version(numbers)
    /\ beta = "unknown"
    /\ NoLaunch
    /\ NoChrome
    /\ NoPrefs

IsBeta ==
    /\ beta = "unknown"
    /\ beta' = IF is_beta(version) THEN "True" ELSE "False"
    /\ UNCHANGED <<engine, report, observers, tabs, drawing, numbers, version, launch,
                   chrome, prefs>>

NextVersion == IsBeta

SpecVersion == InitVersion /\ [][NextVersion]_vars

\* ----------------------------------------------------- the command lines
\* The application runs in the flatpak sandbox or not, in a stable or an
\* unstable version; it has no window before its first command line.
InitCli ==
    /\ IdleSession
    /\ NoDrawing
    /\ numbers \in {<<0, 6, 0>>, <<0, 7, 1>>}
    /\ version = format_version(numbers)
    /\ beta = "unknown"
    /\ program_path \in {FLATPAK_BINARY_PATH, "/usr/bin/drawing"}
    /\ windows = 0
    /\ active_tabs = 0
    /\ runs_in_sandbox = FALSE
    /\ cli = NoCli
    /\ branch = "none"
    /\ opened = <<>>
    /\ tabbed = <<>>
    /\ printed = <<>>
    /\ NoChrome
    /\ NoPrefs

\* A command line arrives: arguments[0] is the program's path, the files the
\* user gave follow.
OnCli(options, files) ==
    /\ windows < MaxWindows
    /\ active_tabs < MaxTabs
    /\ LET arguments == <<program_path>> \o files
           a == on_cli(Application, options, arguments)
       IN /\ cli' = [options |-> options, arguments |-> arguments]
          /\ windows' = a.windows
          /\ active_tabs' = a.active_tabs
          /\ runs_in_sandbox' = a.runs_in_sandbox
          /\ branch' = a.branch
          /\ opened' = a.opened
          /\ tabbed' = a.tabbed
          /\ printed' = a.printed
    /\ UNCHANGED <<engine, report, observers, tabs, drawing, release, program_path,
                   chrome, prefs>>

NextCli ==
    \E options \in SUBSET {Options[i] : i \in 1 .. Len(Options)},
       files \in SeqsOf(FilePaths, MaxFiles) : OnCli(options, files)

SpecCli == InitCli /\ [][NextCli]_vars

\* ------------------------------------------- the calls on the adaptive bars
InitBars ==
    /\ IdleSession
    /\ NoDrawing
    /\ NoRelease
    /\ NoLaunch
    /\ NoChrome
    /\ NoPrefs

\* The call on bar b is recorded: how many times in a row adapt_to_window_size
\* was called on it with this width (1, or 2 for more).
Adapted(b, w) ==
    [adapted EXCEPT ![b] =
        [call |-> "adapt", width |-> w,
         times |-> IF adapted[b].call = "adapt" /\ adapted[b].width = w THEN 2 ELSE 1]]

\* The window is resized: the headerbar's widget is allocated another width.
Resize(w) ==
    /\ w # allocated_width
    /\ allocated_width' = w
    /\ UNCHANGED <<engine, report, observers, tabs, drawing, release, launch, prefs,
                   optionsbar, headerbar, adapted, ready>>

\* The window's options manager gives the bottom pane the allocated width.
AdaptOptionsBar(w) ==
    /\ optionsbar' = adapt_to_window_size([optionsbar EXCEPT !.compacted = <<>>], w)
    /\ adapted' = Adapted("optionsbar", w)
    /\ UNCHANGED <<engine, report, observers, tabs, drawing, release, launch, prefs,
                   headerbar, allocated_width, ready>>

AdaptHeaderbar ==
    /\ headerbar' = headerbar_adapt_to_window_size([headerbar EXCEPT !.compacted = <<>>],
                                                   allocated_width)
    /\ adapted' = Adapted("headerbar", allocated_width)
    /\ UNCHANGED <<engine, report, observers, tabs, drawing, release, launch, prefs,
                   optionsbar, allocated_width, ready>>

\* The first size allocation: init_adaptability, once per bar.
InitAdaptabilityOptionsBar(temp_limit_size) ==
    /\ "optionsbar" \notin ready
    /\ optionsbar' = init_adaptability([optionsbar EXCEPT !.compacted = <<>>],
                                       temp_limit_size)
    /\ adapted' = [adapted EXCEPT !["optionsbar"] =
                       [call |-> "init", width |-> 0, times |-> 1]]
    /\ ready' = ready \cup {"optionsbar"}
    /\ UNCHANGED <<engine, report, observers, tabs, drawing, release, launch, prefs,
                   headerbar, allocated_width>>

\* The headerbar's widgets_width has the manual correction in it (0, or -50
\* for the elementary OS layout).
InitAdaptabilityHeaderbar(widgets_width) ==
    /\ "headerbar" \notin ready
    /\ headerbar' = headerbar_init_adaptability([headerbar EXCEPT !.compacted = <<>>],
                                                widgets_width, allocated_width)
    /\ adapted' = [adapted EXCEPT !["headerbar"] =
                       [call |-> "init", width |-> allocated_width, times |-> 1]]
    /\ ready' = ready \cup {"headerbar"}
    /\ UNCHANGED <<engine, report, observers, tabs, drawing, release, launch, prefs,
                   optionsbar, allocated_width>>

NextBars ==
    \/ \E w \in Widths : Resize(w)
    \/ \E w \in Widths : AdaptOptionsBar(w)
    \/ AdaptHeaderbar
    \/ \E temp_limit_size \in 0 .. MaxPreferred : InitAdaptabilityOptionsBar(temp_limit_size)
    \/ \E widgets_width \in (0 .. MaxPreferred) \cup {-50} :
           InitAdaptabilityHeaderbar(widgets_width)

SpecBars == InitBars /\ [][NextBars]_vars

\* ---------------------------------------- the calls on the preferences
\* The settings hold, for each key, one of its ids or another string.  The
\* flag is not set before the first add_radio_flowbox, and not read before:
\* no radio button exists.
InitPrefs ==
    /\ IdleSession
    /\ NoDrawing
    /\ NoRelease
    /\ NoLaunch
    /\ NoChrome
    /\ gsettings \in [Keys -> UNION {Ids(k) : k \in Keys} \cup {"other"}]
    /\ \A k \in Keys : gsettings[k] \in Ids(k) \cup {"other"}
    /\ _radio_are_active = FALSE
    /\ flowboxes = [k \in Keys |-> <<>>]
    /\ building = NotBuilding
    /\ written = <<>>
    /\ toggled = <<>>

\* The state after a step of the preferences window on the flowbox of key.
PrefsReturn(w, key) ==
    /\ gsettings' = w.gsettings
    /\ _radio_are_active' = w._radio_are_active
    /\ flowboxes' = [flowboxes EXCEPT ![key] = w.group]
    /\ written' = w.written
    /\ toggled' = w.toggled
    /\ UNCHANGED <<engine, report, observers, tabs, drawing, release, launch, chrome>>

\* add_radio_flowbox, up to its loop: the flag is cleared.  The flowboxes are
\* built one after the other, in the order of __init__.
AddRadioFlowbox(i) ==
    /\ building = NotBuilding
    /\ flowboxes[RadioKeys[i]] = <<>>
    /\ \A j \in 1 .. i - 1 : flowboxes[RadioKeys[j]] # <<>>
    /\ building' = [key |-> RadioKeys[i], n |-> 1]
    /\ PrefsReturn([PrefsWindow(RadioKeys[i]) EXCEPT !._radio_are_active = FALSE],
                   RadioKeys[i])

\* One turn of the loop: build_radio_btn for the next id of the dict.
BuildRadioBtn ==
    /\ building # NotBuilding
    /\ building.n <= Len(labels_dict(building.key))
    /\ building' = [building EXCEPT !.n = building.n + 1]
    /\ PrefsReturn(build_radio_btn(PrefsWindow(building.key),
                                   labels_dict(building.key)[building.n], building.key),
                   building.key)

\* After the loop: the flag is set and the flowbox attached.
RadiosAreActive ==
    /\ building # NotBuilding
    /\ building.n > Len(labels_dict(building.key))
    /\ building' = NotBuilding
    /\ PrefsReturn([PrefsWindow(building.key) EXCEPT !._radio_are_active = TRUE],
                   building.key)

\* The window is shown once __init__ has built its pages; the user then
\* clicks a radio button that is not the active one of its flowbox.
Click(key, i) ==
    /\ building = NotBuilding
    /\ \A k \in 1 .. Len(RadioKeys) : flowboxes[RadioKeys[k]] # <<>>
    /\ i \in 1 .. Len(flowboxes[key])
    /\ ~flowboxes[key][i].active
    /\ building' = building
    /\ PrefsReturn(set_active(PrefsWindow(key), key, i, TRUE), key)

NextPrefs ==
    \/ \E i \in 1 .. Len(RadioKeys) : AddRadioFlowbox(i)
    \/ BuildRadioBtn
    \/ RadiosAreActive
    \/ \E key \in Keys : \E i \in 1 .. Len(labels_dict(key)) : Click(key, i)

SpecPrefs == InitPrefs /\ [][NextPrefs]_vars

\* ------------------------------------------------------------- the steps
\* A start on tool t, for an operation of its own.
StartStep(t) == Start(t, t)
UndoStep == \E f \in 0 .. MaxHist, fail \in AllFails : Undo(f, fail)
RedoStep == \E fail \in AllFails : Redo(fail)
SwitchStep == \E t \in Tools : SwitchActiveTool(t)
SampleStep(t) == \E x \in Pixels : Sample(t, x)
FinishStep(t) == \E fail \in AllFails : Finish(t, fail)
\* A finish that committed an Operation.
CommitStep == \E t \in Tools : Finish(t, NoFail) /\ ~elided(Session, t)

Operating == {t \in Tools : ongoing_operation[t]}

\* ops without the Operation of index f.
Without(ops, f) == [i \in 1 .. Len(ops) - 1 |-> IF i < f THEN ops[i] ELSE ops[i + 1]]

\* --------------------------------------------------------------- the claims
\* C1: after start; sample*; cancel on a tool (any number of samples, zero
\* included) the stable buffer is the one that held before start, and the
\* preview buffer equals the stable buffer.
C1_CancelRestores ==
    life.phase = "cancelled" => (stable = life.stable0 /\ preview = stable)

\* C1 happens: a cancel after samples that had changed the preview.
C1_Witness ==
    life.phase = "cancelled" /\ life.sampled # {} /\ life.preview1 # stable

C5_CommitTruncates ==
    [][/\ CommitStep =>
            /\ Len(history') = cursor + 1
            /\ SubSeq(history', 1, cursor) = SubSeq(history, 1, cursor)
            /\ cursor' = cursor + 1
            /\ cursor' = Len(history')
       /\ history' # history => CommitStep]_vars

\* C5 happens: history [A, B, C] at cursor 3, undo, undo, commit(D) gives
\* [A, D], with D none of the discarded B and C.
C5_Witness ==
    /\ life.phase = "committed"
    /\ Len(life.history0) = 3
    /\ life.cursor0 = 1
    /\ Len(history) = 2
    /\ history[1] = life.history0[1]
    /\ history[2] \notin {life.history0[2], life.history0[3]}

C8_BoundaryIsNoOp ==
    [][((cursor = 0 /\ UndoStep) \/ (cursor = Len(history) /\ RedoStep)) =>
          /\ outcome' = "HistoryBoundary"
          /\ UNCHANGED <<history, cursor, stable, preview>>]_vars

\* C8 happens: the boundary was reported while the preview held uncommitted
\* edits.
C8_Witness == outcome = "HistoryBoundary" /\ preview # stable

\* C9: switch_active_tool while the current tool has an ongoing operation
\* reports ToolBusy and cancels nothing: the active tool, the flags, the
\* samples, both buffers and the history are unchanged.
C9_SwitchWhileBusyRefused ==
    [][(SwitchStep /\ ongoing_operation[active_tool]) =>
          (outcome' = "ToolBusy" /\ UNCHANGED engine)]_vars

\* C9 happens: ToolBusy was reported while the active tool had uncommitted
\* edits on the preview.
C9_Witness ==
    /\ outcome = "ToolBusy"
    /\ ongoing_operation[active_tool]
    /\ samples[active_tool] # {}
    /\ preview # stable

\* An undo whose rebuild saw the replay of the Operation of index failed'
\* raise.
FailedUndoStep == failed' # 0 /\ UndoStep

FailedCall ==
    \/ outcome' # "ok"
    \/ (shown' # NoExc /\ ~UndoStep)

\* C11: the stable buffer changes only in a finish that commits or in an undo
\* or a redo; start, sample, cancel, a tool switch and every call that fails
\* leave it as it was.
C11_StableFrame ==
    [][/\ stable' # stable => (CommitStep \/ UndoStep \/ RedoStep)
       /\ FailedCall => stable' = stable]_vars

\* C11 happens: a finish whose operation raised left a partial drawing on the
\* preview and the stable buffer as it was at start.
C11_Witness ==
    /\ life.phase = "failed"
    /\ shown = "ReplayFailure"
    /\ preview # stable
    /\ stable = life.stable0

C13_CancelAlwaysWorks ==
    /\ [](\A t \in Tools : ongoing_operation[t] => ENABLED Cancel(t))
    /\ [][\A t \in Tools : (Cancel(t) /\ ongoing_operation[t]) =>
              /\ outcome' = "ok"
              /\ shown' = NoExc
              /\ ~ongoing_operation'[t]
              /\ UNCHANGED <<history, cursor>>]_vars

\* C13 happens: a tool was cancelled while the other tool was operating too
\* and the cursor was below the end of the history.
C13_Witness ==
    /\ life.phase = "cancelled"
    /\ outcome = "ok"
    /\ ~ongoing_operation[life.tool]
    /\ \E y \in Tools \ {life.tool} : ongoing_operation[y]
    /\ 0 < cursor
    /\ cursor < Len(history)

C17_OnDrawReadsActiveOnly ==
    [][\A t \in Tools : OnDraw(t) =>
          /\ (accept_selection[t] /\ selection.is_active) =>
                /\ reads' = {"is_active", "pixbuf", "path"}
                /\ overlay' = <<selection.path, selection.offset>>
          /\ ~(accept_selection[t] /\ selection.is_active) =>
                /\ reads' \cap {"pixbuf", "path"} = {}
                /\ overlay' = NoPath
          /\ ~accept_selection[t] => reads' = {}]_vars

\* C17 happens: on_draw returned after it found inactive a selection that
\* still holds a stale path and stale pixels.
C17_Witness ==
    /\ reads = {"is_active"}
    /\ overlay = NoPath
    /\ ~selection.is_active
    /\ selection.path # NoPath
    /\ selection.pixbuf # NoPath

\* C20: is_beta returns true exactly when the minor number of the version, the
\* second component of the version string, is odd, and false when it is even.
C20_BetaIffMinorOdd ==
    /\ beta = "True" => numbers[2] % 2 = 1
    /\ beta = "False" => numbers[2] % 2 = 0

\* C20 happens: is_beta returned true for a version whose minor number has
\* three digits and whose major and patch numbers are even.
C20_Witness ==
    /\ beta = "True"
    /\ numbers[2] > 100
    /\ numbers[1] % 2 = 0
    /\ numbers[3] % 2 = 0

\* The option of highest priority among those present.
Highest(options) ==
    Options[CHOOSE i \in 1 .. Len(Options) :
                /\ Options[i] \in options
                /\ \A j \in 1 .. i - 1 : Options[j] \notin options]

\* The option a branch of on_cli applies: its own; the last branch opens the
\* files as new-tab does ("giving files without '-n' is equivalent to giving
\* files with '-t'"); on_activate applies none.
Applies(b) == IF b = "files" THEN "new-tab" ELSE b

\* C18: for every combination of options present, the branch of on_cli that
\* runs is the one of the highest-priority option present, the priority being
\* version, edit-clipboard, new-tab, new-window; the version branch opens no
\* window and no tab.
C18_HighestPriorityOptionRuns ==
    /\ cli.options # {} => Applies(branch) = Highest(cli.options)
    /\ branch = "version" => (opened = <<>> /\ tabbed = <<>>)

\* The windows the files given by the user ask for: the file of each path
\* that is an image's, a blank one for each other path that is valid enough.
RECURSIVE WindowsFor(_)
WindowsFor(files) ==
    IF files = <<>> THEN <<>>
    ELSE (IF ~is_creatable(Head(files)) THEN <<>>
          ELSE IF utilities_gfile_is_image(Head(files)) THEN <<Head(files)>>
          ELSE <<None>>)
         \o WindowsFor(Tail(files))

\* C19: when the new-window branch handles the command line, the windows it
\* opens are one per valid enough file among arguments[1..], the files the
\* user gave, or one blank window if there is none; it adds no tab.
C19_OneWindowPerFile ==
    branch = "new-window" =>
        /\ opened = (IF WindowsFor(Tail(cli.arguments)) = <<>> THEN <<None>>
                     ELSE WindowsFor(Tail(cli.arguments)))
        /\ tabbed = <<>>

\* The tools whose flag is set after the step.
OperatingAfter == {t \in Tools : ongoing_operation'[t]}

\* C21 as stated: whenever no tool has an ongoing operation, the preview
\* buffer equals the stable buffer, also after an apply whose
\* do_tool_operation raised.
C21_IdlePreviewIsStable == Operating = {} => preview = stable

\* C21 amended: after a finish that commits, a cancel, and an undo or a redo
\* in which no replay raised, the preview buffer equals the stable buffer.
\* simple_apply_operation does not restore the pixbuf after an exception: an
\* apply whose do_tool_operation raised leaves what it had drawn on the
\* preview, with the tool idle.  With all tools idle the preview differs from
\* the stable buffer only after such a call, or because it already did before
\* a call that changed neither buffer.
C21_IdlePreviewUnlessApplyRaised ==
    [][/\ (CommitStep \/ (\E t \in Tools : Cancel(t))) => preview' = stable'
       /\ (shown' = NoExc /\ outcome' = "ok" /\ (UndoStep \/ RedoStep)) =>
             preview' = stable'
       /\ (OperatingAfter = {} /\ preview' # stable') =>
             \/ shown' = "ReplayFailure"
             \/ (Operating = {} /\ preview' = preview /\ stable' = stable)]_vars

\* C21 happens: the last replay of an undo's rebuild raised; the tools are
\* idle and the preview holds what the replay had drawn, not the stable buffer.
C21_Witness ==
    /\ Operating = {}
    /\ failed # 0
    /\ failed = cursor
    /\ shown = "ReplayFailure"
    /\ outcome = "ok"
    /\ preview # stable

\* C22: a finish that is not elided goes through simple_apply_operation.  If
\* do_tool_operation raised, the operation is not added to the history (the
\* history, the cursor and the stable buffer are as before) and the error
\* text is shown; if it did not raise, the operation is added exactly once, at
\* the cursor, and nothing is shown.  In both cases the tool's flag is false
\* afterwards, as is, after a redo, the flag of the tool that replayed.
C22_AddedOnlyAfterSuccess ==
    [][/\ \A t \in Tools, fail \in AllFails :
             (~elided(Session, t) /\ Finish(t, fail)) =>
                 /\ ~ongoing_operation'[t]
                 /\ outcome' = "ok"
                 /\ fail.raises =>
                       /\ history' = history
                       /\ cursor' = cursor
                       /\ stable' = stable
                       /\ shown' = "ReplayFailure"
                 /\ ~fail.raises =>
                       /\ history' = Append(SubSeq(history, 1, cursor),
                                            build_operation(t, samples[t]))
                       /\ cursor' = cursor + 1
                       /\ shown' = NoExc
       /\ (cursor < Len(history) /\ RedoStep) =>
             (history' = history /\ ~ongoing_operation'[history[cursor + 1].tool_id])]_vars

\* C22 happens: a finish whose operation raised, below the end of the
\* history: the operation was not added (an addition would have truncated the
\* history), the error was shown and the tool is idle.
C22_Witness ==
    /\ life.phase = "failed"
    /\ life.sampled # {}
    /\ shown = "ReplayFailure"
    /\ ~ongoing_operation[life.tool]
    /\ cursor < Len(history)
    /\ history = life.history0

\* C23: start_tool_operation on tool t for an operation whose tool_id is t
\* resets the preview to the stable buffer and sets t's flag; for an operation
\* of another tool's id it raises WrongToolIdException before any change: the
\* preview, the flags and the rest of the session keep their values.
C23_StartChecksIdFirst ==
    [][\A t \in Tools, id \in Tools :
          Start(t, id) =>
              /\ id = t =>
                    /\ outcome' = "ok"
                    /\ preview' = stable
                    /\ stable' = stable
                    /\ ongoing_operation' = [ongoing_operation EXCEPT ![t] = TRUE]
              /\ id # t =>
                    /\ outcome' = "WrongToolIdException"
                    /\ preview' = preview
                    /\ ongoing_operation' = ongoing_operation
                    /\ UNCHANGED engine]_vars

\* C23 happens: WrongToolIdException was raised while exactly one tool was
\* operating with uncommitted edits on the preview, which are still there.
C23_Witness ==
    /\ outcome = "WrongToolIdException"
    /\ Cardinality(Operating) = 1
    /\ \E t \in Operating : samples[t] # {}
    /\ preview # stable

C25_CursorWithinHistory ==
    /\ (history = <<>> /\ cursor = 0)
    /\ [](0 <= cursor /\ cursor <= Len(history))
    /\ [][/\ history' # history => (CommitStep /\ ~UndoStep /\ ~RedoStep)
          /\ cursor' # cursor =>
                \/ (cursor' = cursor + 1 /\ (CommitStep \/ RedoStep))
                \/ (cursor' = cursor - 1 /\ UndoStep)]_vars

\* C25 happens: every Operation of a full history was undone: the cursor is
\* back at 0, the pristine image, and the Operations are all still there.
C25_Witness ==
    /\ cursor = 0
    /\ Len(history) = MaxHist
    /\ history[1] # history[2]
    /\ stable = initial_pixbuf
    /\ outcome = "ok"

\* C26: after every call of adapt_to_window_size with a width w (the options
\* bar: the width it is given; the headerbar: its widget's allocated width)
\* the bar's _is_narrow is not (w > _limit_size), and the call invokes
\* set_compact only when the flag has to change, once, with the new flag; a
\* call repeated with the same width invokes no set_compact.
C26_NarrowIffNotAboveLimit ==
    [][/\ \A w \in Widths : AdaptOptionsBar(w) =>
             /\ optionsbar'._is_narrow = ~(2 * w > optionsbar._limit_size)
             /\ optionsbar'.compacted =
                    (IF optionsbar'._is_narrow = optionsbar._is_narrow THEN <<>>
                     ELSE <<optionsbar'._is_narrow>>)
             /\ adapted'["optionsbar"].times = 2 => optionsbar'.compacted = <<>>
       /\ AdaptHeaderbar =>
             /\ headerbar'._is_narrow = ~(2 * allocated_width > headerbar._limit_size)
             /\ headerbar'.compacted =
                    (IF headerbar'._is_narrow = headerbar._is_narrow THEN <<>>
                     ELSE <<headerbar'._is_narrow>>)
             /\ adapted'["headerbar"].times = 2 => headerbar'.compacted = <<>>]_vars

\* C26 happens: the options bar, whose limit init_adaptability has set, was
\* adapted a second time to a width above the limit: it is not narrow and the
\* call invoked no set_compact; the headerbar was expanded by its last call.
C26_Witness ==
    /\ "optionsbar" \in ready
    /\ adapted["optionsbar"].call = "adapt"
    /\ adapted["optionsbar"].times = 2
    /\ 2 * adapted["optionsbar"].width > optionsbar._limit_size
    /\ ~optionsbar._is_narrow
    /\ optionsbar.compacted = <<>>
    /\ adapted["headerbar"].call = "adapt"
    /\ headerbar.compacted = <<FALSE>>

\* A step of add_radio_flowbox: it starts, builds a button, or ends.
BuildingStep == (\E i \in 1 .. Len(RadioKeys) : AddRadioFlowbox(i)) \/ BuildRadioBtn \/ RadiosAreActive

\* The ids of the buttons of the flowbox of key that change state in the step.
Toggling(key) ==
    {flowboxes[key][i].id : i \in {j \in 1 .. Len(flowboxes[key]) :
                                      flowboxes'[key][j].active # flowboxes[key][j].active}}

\* C27: while add_radio_flowbox builds its buttons _radio_are_active is false,
\* and no step of it writes a setting, also when set_active makes a button
\* whose handler is connected emit 'toggled'.  A setting changes only in a
\* toggle after the flowboxes were built: every write of that step is to the
\* flowbox's key with the id of a button that toggled, and the key ends with
\* the id of the button that was clicked.
C27_BuildingWritesNothing ==
    /\ [](building # NotBuilding => ~_radio_are_active)
    /\ [][BuildingStep => (gsettings' = gsettings /\ written' = <<>>)]_vars
    /\ [][\A key \in Keys : \A i \in 1 .. Len(labels_dict(key)) :
              Click(key, i) =>
                  /\ _radio_are_active
                  /\ written' # <<>>
                  /\ \A n \in 1 .. Len(written') :
                         written'[n][1] = key /\ written'[n][2] \in Toggling(key)
                  /\ gsettings' = [gsettings EXCEPT ![key] = flowboxes[key][i].id]]_vars
    /\ [][gsettings' # gsettings =>
              \E key \in Keys : \E i \in 1 .. Len(labels_dict(key)) : Click(key, i)]_vars

\* C27 happens: while the third flowbox is built, after the flag had been set
\* at the end of the second, set_active made a connected button emit
\* 'toggled'; the callback ran and wrote nothing.
C27_Witness ==
    /\ building.key = "deco-type"
    /\ Len(flowboxes["theme-variant"]) = Len(labels_dict("theme-variant"))
    /\ toggled # <<>>
    /\ written = <<>>
    /\ ~_radio_are_active
    /\ gsettings["deco-type"] # labels_dict("deco-type")[1]
    /\ \E i \in 1 .. Len(flowboxes["deco-type"]) :
           /\ flowboxes["deco-type"][i].active
           /\ flowboxes["deco-type"][i].id = gsettings["deco-type"]

=============================================================================
